---- MODULE Spec2Model ----
(***************************************************************************)
(* Model of the notebook quad-metric-approximation-template.ipynb (code    *)
(* cell e0d2b41f): generate noisy distance samples from a ground-truth     *)
(* quadratic metric P, build the conic program over S (PSD) and t, solve   *)
(* it, print the fitted matrix and print the mean squared error on the     *)
(* held-out pairs.                                                         *)
(*                                                                         *)
(* Reals are modelled by integers.  The random draws (np.random.randn) are *)
(* taken from bounded integer sets and a sample is generated only when its *)
(* distance has an exact integer square root, so every value of the model  *)
(* is a value the floating-point program computes exactly.                 *)
(* The notebook's parameters n = 5, N = 100, N_test = 10 range over the    *)
(* bounded sets 1..MaxDim, 0..(MaxEntries \div n), 1..MaxNTest, so that   *)
(* the training array x has at most MaxEntries entries.                    *)
(***************************************************************************)
EXTENDS Integers, Sequences, FiniteSets

VARIABLES
    pc,          \* position in the cell: the statement group to run next
    err,         \* exception that ended the run, or None
    n, N, N_test,\* dimension, number of training / held-out samples
    n_test,      \* X_test.shape[1], the dimension of the held-out points
    P, sqrtP,    \* ground-truth matrix and its matrix square root
    x, y, d,     \* training pairs and observed distances
    noise,       \* the np.random.randn(N) draw added to the training distances
    X_test, Y_test, d_test,
    noise_test,  \* the np.random.randn(N_test) draw added to the held-out distances
    constraints, \* the list built by the loop over range(N)
    status,      \* problem.status after problem.solve()
    value,       \* problem.value after problem.solve()
    S_opt,       \* S.value after problem.solve()
    mse,         \* the held-out mean squared error, as <<sum, count>>
    out,         \* what the cell has printed
    steps,       \* the steps executed so far, in order
    reads        \* for each data item, the steps that consumed it

vars == <<pc, err, n, N, N_test, n_test, P, sqrtP, x, y, d, noise,
          X_test, Y_test, d_test, noise_test, constraints, status, value,
          S_opt, mse, out, steps, reads>>

\* ------------------------------------------------------------------ bounds
MaxDim == 2
MaxEntries == 2
MaxNTest == 1
MaxCoord == 1
MaxNoise == 1
MaxQ == 2
MaxS == 1
MaxT == 1

None == "None"

\* a matrix or a mean that has no value (not yet assigned, or Python's None)
NoValue == <<>>

\* ------------------------------------------------------------ arithmetic
RECURSIVE Sum(_)
Sum(s) == IF s = <<>> THEN 0 ELSE Head(s) + Sum(Tail(s))

IsSquare(q) == q >= 0 /\ \E r \in 0..q : r * r = q

\* the square root, exact on the perfect squares the model computes with
Sqrt(q) == CHOOSE r \in 0..q : r * r <= q /\ q < (r + 1) * (r + 1)

\* matrices are sequences of rows; Mat(k, lo, hi) are the k x k integer ones
Mat(k, lo, hi) == [1..k -> [1..k -> lo..hi]]

Vec(k, lo, hi) == [1..k -> lo..hi]

Identity(k) == [i \in 1..k |-> [j \in 1..k |-> IF i = j THEN 1 ELSE 0]]

Zero(k) == [i \in 1..k |-> [j \in 1..k |-> 0]]

MatMul(A, B) ==
    [i \in 1..Len(A) |-> [j \in 1..Len(B[1]) |->
        Sum([k \in 1..Len(B) |-> A[i][k] * B[k][j]])]]

MatSub(A, B) == [i \in 1..Len(A) |-> [j \in 1..Len(A[i]) |-> A[i][j] - B[i][j]]]

MatVec(M, v) == [i \in 1..Len(M) |-> Sum([k \in 1..Len(v) |-> M[i][k] * v[k]])]

SumSq(v) == Sum([k \in 1..Len(v) |-> v[k] * v[k]])

QuadForm(M, z) == Sum([k \in 1..Len(z) |-> z[k] * MatVec(M, z)[k]])

\* k-th smallest element of a finite set of integers
Pick(I, k) == CHOOSE e \in I : Cardinality({f \in I : f < e}) = k - 1

SubMatrix(M, I) ==
    [i \in 1..Cardinality(I) |-> [j \in 1..Cardinality(I) |-> M[Pick(I, i)][Pick(I, j)]]]

DropRowCol(M, r, c) ==
    [i \in 1..(Len(M) - 1) |-> [j \in 1..(Len(M) - 1) |->
        M[IF i < r THEN i ELSE i + 1][IF j < c THEN j ELSE j + 1]]]

RECURSIVE Det(_)
Det(M) ==
    IF Len(M) = 0 THEN 1
    ELSE IF Len(M) = 1 THEN M[1][1]
    ELSE Sum([j \in 1..Len(M) |->
            (IF j % 2 = 1 THEN 1 ELSE -1) * M[1][j] * Det(DropRowCol(M, 1, j))])

IsSymmetric(M) == \A i \in 1..Len(M) : \A j \in 1..Len(M) : M[i][j] = M[j][i]

\* positive semidefinite: symmetric with every principal minor nonnegative
IsPSD(M) ==
    /\ IsSymmetric(M)
    /\ \A I \in (SUBSET (1..Len(M))) \ {{}} : Det(SubMatrix(M, I)) >= 0

\* --------------------------------------------------------------- numpy
\* A - B on arrays of points (rows)
ArrSub(A, B) == [i \in 1..Len(A) |-> [k \in 1..Len(A[i]) |-> A[i][k] - B[i][k]]]

\* A.T of an array with `cols` columns
Transpose(A, cols) == [k \in 1..cols |-> [i \in 1..Len(A) |-> A[i][k]]]

Min(a, b) == IF a <= b THEN a ELSE b

\* a product that never checks the shapes
dotNeverRaises(A, B) == FALSE

\* A.dot(B) of two 2-D arrays raises ValueError (shapes not aligned) unless
\* the number of columns of A is the number of rows of B
dotRaises(A, B) == \E i \in 1..Len(A) : Len(A[i]) # Len(B)

\* the product A.dot(B); the inner index runs over the common range, which
\* is the whole range whenever the shapes are aligned
dot(A, B) ==
    [i \in 1..Len(A) |-> [j \in 1..Len(B[1]) |->
        Sum([k \in 1..Min(Len(A[i]), Len(B)) |-> A[i][k] * B[k][j]])]]

Column(A, j) == [i \in 1..Len(A) |-> A[i][j]]

\* every column has an integer Euclidean norm
ExactNorms(A) == \A j \in 1..Len(A[1]) : IsSquare(SumSq(Column(A, j)))

\* np.linalg.norm(A, axis=0): the Euclidean norm of every column
norm0(A) == [j \in 1..Len(A[1]) |-> Sqrt(SumSq(Column(A, j)))]

\* the noisy distance left as it is
maximumNoClip(a, b) == a

maximum(a, b) == IF a >= b THEN a ELSE b

\* np.mean of a 1-D array, kept as the pair <<sum, count>>
mean(s) == IF Len(s) = 0 THEN <<"nan">> ELSE <<Sum(s), Len(s)>>

\* ------------------------------------------------ sample generator (93-112)
\* the values P = A.A^T + I takes whose square root has integer entries
GroundTruth(k) ==
    {MatMul(R, R) : R \in {Q \in Mat(k, 0, MaxQ) :
        IsPSD(Q) /\ IsPSD(MatSub(MatMul(Q, Q), Identity(k)))}}

\* la.sqrtm(M): the positive-semidefinite square root
sqrtm(M) == CHOOSE R \in Mat(Len(M), 0, MaxQ) : IsPSD(R) /\ MatMul(R, R) = M

\* the values np.random.randn(count, k) is drawn from
randn2(count, k) == [1..count -> Vec(k, 0, MaxCoord)]

\* the values np.random.randn(count) is drawn from
randn1(count) == [1..count -> (-MaxNoise)..MaxNoise]

\* sqrtP.dot((A-B).T): one column per pair
Images(rootP, A, B, cols) == dot(rootP, Transpose(ArrSub(A, B), cols))

\* np.maximum(dist + eps, 0), elementwise
Clip(dist, eps) == [i \in 1..Len(dist) |-> maximum(dist[i] + eps[i], 0)]

\* ----------------------------------------------- program builder (114-128)
\* a variable constructor that accepts every shape
ValidShapeAny(shape) == TRUE

\* cp.Variable(shape) raises ValueError for a shape with a dimension that is
\* not positive
ValidShape(shape) == \A i \in 1..Len(shape) : shape[i] > 0

\* the values of a variable declared cp.Variable((k,k)), without PSD=True
SVariablePlain(k) == Mat(k, 0, MaxS)

\* the values of S = cp.Variable((k,k), PSD=True)
SVariable(k) == {M \in Mat(k, 0, MaxS) : IsPSD(M)}

\* the values of t = cp.Variable(count)
tVariable(count) == [1..count -> (-MaxT)..MaxT]

\* the loop without its second constraint
BuildConstraintsNoNonneg(xs, ys, ds, count) ==
    [j \in 1..count |->
        [kind |-> "SOC", i |-> j, d |-> ds[j],
         z |-> [k \in 1..Len(xs[j]) |-> xs[j][k] - ys[j][k]]]]

\* the list the loop over range(count) builds: for sample i, the cone
\* constraint SOC(d[i] - t[i], S @ z_i) followed by t[i] >= 0
BuildConstraints(xs, ys, ds, count) ==
    [j \in 1..(2 * count) |->
        IF j % 2 = 1
        THEN [kind |-> "SOC", i |-> (j + 1) \div 2, d |-> ds[(j + 1) \div 2],
              z |-> [k \in 1..Len(xs[(j + 1) \div 2]) |->
                        xs[(j + 1) \div 2][k] - ys[(j + 1) \div 2][k]]]
        ELSE [kind |-> "nonneg", i |-> j \div 2, d |-> 0, z |-> <<>>]]

\* whether the assignment (Sv, tv) satisfies constraint c
Satisfies(c, Sv, tv) ==
    IF c.kind = "SOC"
    THEN /\ c.d - tv[c.i] >= 0
         /\ SumSq(MatVec(Sv, c.z)) <= (c.d - tv[c.i]) * (c.d - tv[c.i])
    ELSE tv[c.i] >= 0

\* cp.Minimize(cp.sum(t))
objective(a) == Sum(a.t)

Feasible(cons, k, count) ==
    {a \in [S : SVariable(k), t : tVariable(count)] :
        \A j \in 1..Len(cons) : Satisfies(cons[j], a.S, a.t)}

Optimal(cons, k, count) ==
    LET F == Feasible(cons, k, count)
    IN  {a \in F : \A b \in F : objective(a) <= objective(b)}

\* ------------------------------------------------------ solver (129-132)
\* what problem.solve() can leave behind: an optimal point, the status
\* infeasible when there is no feasible point, or a numerical failure, which
\* either is reported as a status (S.value is None) or raises SolverError
SolveOutcomes(cons, k, count) ==
    {[status |-> "optimal", value |-> objective(a), S |-> a.S, raises |-> None] :
        a \in Optimal(cons, k, count)}
    \cup (IF Feasible(cons, k, count) = {}
          THEN {[status |-> "infeasible", value |-> "inf", S |-> NoValue, raises |-> None]}
          ELSE {})
    \cup {[status |-> "infeasible_inaccurate", value |-> "inf", S |-> NoValue, raises |-> None],
          [status |-> "solver_error", value |-> None, S |-> NoValue, raises |-> "SolverError"]}

\* ------------------------------------------- the cell's statement order
\* the cell run again from the solve once it has evaluated
AfterRerun(p) ==
    CASE p = "generate" -> "formulate"
      [] p = "formulate" -> "solve"
      [] p = "solve" -> "print"
      [] p = "print" -> "evaluate"
      [] p = "evaluate" -> "solve"

\* the statement group that follows p when p raises nothing
After(p) ==
    CASE p = "generate" -> "formulate"
      [] p = "formulate" -> "solve"
      [] p = "solve" -> "print"
      [] p = "print" -> "evaluate"
      [] p = "evaluate" -> "done"

\* ----------------------------------------------------- the steps' reads
FormulateReads == {"x", "y", "d"}

PrintReads == {"S_opt"}

EvaluateReads == {"X_test", "Y_test", "d_test", "sqrtP"}

Consumed == {"x", "y", "d", "X_test", "Y_test", "d_test", "S_opt"}

Record(step, names) ==
    [v \in Consumed |-> IF v \in names THEN Append(reads[v], step) ELSE reads[v]]

\* ---------------------------------------------------------------- actions
Init ==
    /\ pc = "generate"
    /\ err = None
    /\ n \in 1..MaxDim
    /\ N \in 0..(MaxEntries \div n)
    /\ N_test \in 1..MaxNTest
    /\ n_test = None
    /\ P = None /\ sqrtP = None
    /\ x = None /\ y = None /\ d = None /\ noise = None
    /\ X_test = None /\ Y_test = None /\ d_test = None /\ noise_test = None
    /\ constraints = None
    /\ status = None /\ value = None /\ S_opt = NoValue
    /\ mse = NoValue
    /\ out = <<>>
    /\ steps = <<>>
    /\ reads = [v \in Consumed |-> <<>>]

\* lines 93-112
Generate ==
    /\ pc = "generate"
    /\ \E Pm \in GroundTruth(n) :
       LET rootP == sqrtm(Pm)
       IN  \E xs \in randn2(N, n), ys \in randn2(N, n) :
             /\ ExactNorms(Images(rootP, xs, ys, n))
             /\ \E Xs \in randn2(N_test, n), Ys \in randn2(N_test, n) :
                  /\ ExactNorms(Images(rootP, Xs, Ys, n))
                  /\ \E e \in randn1(N), et \in randn1(N_test) :
                       /\ P' = Pm
                       /\ sqrtP' = rootP
                       /\ x' = xs /\ y' = ys /\ noise' = e
                       /\ d' = Clip(norm0(Images(rootP, xs, ys, n)), e)
                       /\ X_test' = Xs /\ Y_test' = Ys /\ noise_test' = et
                       /\ d_test' = Clip(norm0(Images(rootP, Xs, Ys, n)), et)
    /\ n_test' = n
    /\ pc' = After(pc)
    /\ steps' = Append(steps, "generate")
    /\ UNCHANGED <<err, n, N, N_test, constraints, status, value, S_opt, mse, out, reads>>

\* lines 114-128
Formulate ==
    /\ pc = "formulate"
    /\ steps' = Append(steps, "formulate")
    /\ IF ValidShape(<<n, n>>) /\ ValidShape(<<N>>)
       THEN /\ constraints' = BuildConstraints(x, y, d, N)
            /\ reads' = Record("formulate", FormulateReads)
            /\ pc' = After(pc)
            /\ err' = err
       ELSE /\ err' = "ValueError"
            /\ pc' = "error"
            /\ UNCHANGED <<constraints, reads>>
    /\ UNCHANGED <<n, N, N_test, n_test, P, sqrtP, x, y, d, noise, X_test, Y_test,
                   d_test, noise_test, status, value, S_opt, mse, out>>

\* lines 129-132
Solve ==
    /\ pc = "solve"
    /\ steps' = Append(steps, "solve")
    /\ \E o \in SolveOutcomes(constraints, n, N) :
         /\ status' = o.status
         /\ value' = o.value
         /\ S_opt' = o.S
         /\ err' = o.raises
         /\ pc' = IF o.raises = None THEN After(pc) ELSE "error"
    /\ UNCHANGED <<n, N, N_test, n_test, P, sqrtP, x, y, d, noise, X_test, Y_test,
                   d_test, noise_test, constraints, mse, out, reads>>

\* line 133
PrintS ==
    /\ pc = "print"
    /\ out' = Append(out, <<"Optimal S:", S_opt>>)
    /\ reads' = Record("print", PrintReads)
    /\ steps' = Append(steps, "print")
    /\ pc' = After(pc)
    /\ UNCHANGED <<err, n, N, N_test, n_test, P, sqrtP, x, y, d, noise, X_test, Y_test,
                   d_test, noise_test, constraints, status, value, S_opt, mse>>

\* the squared residuals (obs - norm of the columns of D) ** 2
SquaredErrors(obs, D) == [j \in 1..Len(obs) |-> (obs[j] - norm0(D)[j]) * (obs[j] - norm0(D)[j])]

\* lines 135-137
Evaluate ==
    /\ pc = "evaluate"
    /\ steps' = Append(steps, "evaluate")
    /\ reads' = Record("evaluate", EvaluateReads)
    /\ IF dotRaises(sqrtP, Transpose(ArrSub(X_test, Y_test), n_test))
       THEN /\ err' = "ValueError"
            /\ pc' = "error"
            /\ UNCHANGED <<mse, out>>
       ELSE /\ mse' = mean(SquaredErrors(d_test, Images(sqrtP, X_test, Y_test, n_test)))
            /\ out' = Append(out, <<"MSE on test set:", mse'>>)
            /\ pc' = After(pc)
            /\ err' = err
    /\ UNCHANGED <<n, N, N_test, n_test, P, sqrtP, x, y, d, noise, X_test, Y_test,
                   d_test, noise_test, constraints, status, value, S_opt>>

Next == Generate \/ Formulate \/ Solve \/ PrintS \/ Evaluate

Spec == Init /\ [][Next]_vars

\* the evaluate step on its own, applied to a fitted matrix of dimension n and
\* a held-out set of n_test-dimensional points supplied from outside
InitEval ==
    /\ pc = "evaluate"
    /\ err = None
    /\ n \in 1..MaxDim
    /\ n_test \in 1..MaxDim
    /\ N = None
    /\ N_test \in 1..MaxNTest
    /\ P \in GroundTruth(n)
    /\ sqrtP = sqrtm(P)
    /\ x = None /\ y = None /\ d = None /\ noise = None
    /\ X_test \in randn2(N_test, n_test)
    /\ Y_test \in randn2(N_test, n_test)
    /\ \/ dotRaises(sqrtP, Transpose(ArrSub(X_test, Y_test), n_test))
       \/ ExactNorms(Images(sqrtP, X_test, Y_test, n_test))
    /\ d_test \in [1..N_test -> 0..(MaxCoord + MaxNoise)]
    /\ noise_test = None
    /\ constraints = None
    /\ status = "optimal"
    /\ value = 0
    /\ S_opt \in SVariable(n)
    /\ mse = NoValue
    /\ out = <<<<"Optimal S:", S_opt>>>>
    /\ steps = <<"generate", "formulate", "solve", "print">>
    /\ reads = [v \in Consumed |->
                  IF v \in FormulateReads THEN <<"formulate">>
                  ELSE IF v \in PrintReads THEN <<"print">> ELSE <<>>]

NextEval == Evaluate

SpecEval == InitEval /\ [][NextEval]_vars

\* ------------------------------------------------------------ properties
Range(q) == {q[k] : k \in 1..Len(q)}

Solved == status = "optimal"

\* the sample generator has run
Generated == "generate" \in Range(steps)

\* the program has been built
Built == "formulate" \in Range(steps) /\ ~(pc = "error" /\ Len(steps) = 2)

\* the distance the metric M predicts for the pair (a, b):
\* the square root of the quadratic form of M at a - b
Predicted(M, a, b) == Sqrt(QuadForm(M, [k \in 1..Len(a) |-> a[k] - b[k]]))

\* M predicts an integer distance for every pair of (A, B)
PredictsExactly(M, A, B) ==
    \A j \in 1..Len(A) : IsSquare(QuadForm(M, [k \in 1..Len(A[j]) |-> A[j][k] - B[j][k]]))

\* the sum of (obs[j] - predicted distance of pair j) ^ 2
SquaredErrorSum(M, A, B, obs) ==
    Sum([j \in 1..Len(A) |->
        (obs[j] - Predicted(M, A[j], B[j])) * (obs[j] - Predicted(M, A[j], B[j]))])

\* the distance of the pair (a, b) under the ground truth, before the noise
TrueDistance(a, b) == Sqrt(SumSq(MatVec(sqrtP, [k \in 1..Len(a) |-> a[k] - b[k]])))

Printed(label) == \E k \in 1..Len(out) : out[k][1] = label

\* C1: the MSE the evaluate step reports is the mean, over the held-out pairs,
\* of (d_test[j] - pred[j])^2 with pred[j] the square root of the quadratic
\* form of the fitted matrix S_opt at X_test[j] - Y_test[j].
C1_MseOfFittedMatrix ==
    (pc = "done" /\ Solved /\ PredictsExactly(S_opt, X_test, Y_test))
        => mse = <<SquaredErrorSum(S_opt, X_test, Y_test, d_test), N_test>>

\* C2: the matrix of an optimal solution of the built program minimizes the
\* training mean squared error over the positive-semidefinite matrices (the
\* means share the divisor N, so the sums are compared).
C2_OptimumMinimizesMSE ==
    (Solved /\ PredictsExactly(S_opt, x, y))
        => \A M \in SVariable(n) :
              PredictsExactly(M, x, y)
                  => SquaredErrorSum(S_opt, x, y, d) <= SquaredErrorSum(M, x, y, d)

ZeroNoise == N >= 1 /\ \A i \in 1..N : noise[i] = 0

\* the training distances fit P and no other matrix of the variable's range
DeterminesP ==
    /\ P \in SVariable(n)
    /\ \A M \in SVariable(n) :
          (\A i \in 1..N : QuadForm(M, [k \in 1..n |-> x[i][k] - y[i][k]]) = d[i] * d[i])
              <=> M = P

\* C3: with zero noise the solve step returns P and the training mean squared
\* error of the returned matrix is 0 (stated for the training sets that fit P
\* and no other matrix, where a minimizer of the error has to be P).
C3_ZeroNoiseRecoversP ==
    (Solved /\ ZeroNoise /\ DeterminesP)
        => /\ S_opt = P
           /\ PredictsExactly(S_opt, x, y)
           /\ SquaredErrorSum(S_opt, x, y, d) = 0

\* C4: when the solver returns no optimal point the run ends in the failure
\* outcome: it stops there, and prints neither a fitted matrix nor an MSE.
C4_SolverFailureIsTerminal ==
    (status \notin {None, "optimal"})
        => /\ pc = "error"
           /\ ~Printed("Optimal S:")
           /\ ~Printed("MSE on test set:")
           /\ mse = NoValue

\* C5: a run with N = 0 ends in an error before anything is solved or printed;
\* it never ends as a successful solve with objective value 0.
C5_EmptyTrainingSetRejected ==
    (N = 0 /\ pc \notin {"generate", "formulate"})
        => /\ pc = "error"
           /\ err = "ValueError"
           /\ status = None
           /\ S_opt = NoValue
           /\ mse = NoValue
           /\ out = <<>>

C5_Witness == N = 0 /\ pc = "error" /\ err = "ValueError" /\ d = <<>>

C7_FittedMatrixIsPSD ==
    /\ Solved => (IsSymmetric(S_opt) /\ IsPSD(S_opt))
    /\ pc = "solve" =>
          \A a \in Feasible(constraints, n, N) : IsSymmetric(a.S) /\ IsPSD(a.S)

C7_Witness == Solved /\ n = 2 /\ S_opt[1][2] # 0 /\ pc = "done"

\* C8: every observed distance, training and held-out, is nonnegative: it is 0
\* where the true distance plus the noise is below 0 and is that sum otherwise;
\* the cone constraints carry these training distances.
C8_DistancesClipped ==
    /\ Generated =>
          \A i \in 1..N :
              /\ d[i] >= 0
              /\ TrueDistance(x[i], y[i]) + noise[i] < 0 => d[i] = 0
              /\ TrueDistance(x[i], y[i]) + noise[i] >= 0
                    => d[i] = TrueDistance(x[i], y[i]) + noise[i]
    /\ Generated =>
          \A j \in 1..N_test :
              /\ d_test[j] >= 0
              /\ TrueDistance(X_test[j], Y_test[j]) + noise_test[j] < 0 => d_test[j] = 0
              /\ TrueDistance(X_test[j], Y_test[j]) + noise_test[j] >= 0
                    => d_test[j] = TrueDistance(X_test[j], Y_test[j]) + noise_test[j]
    /\ Built =>
          \A j \in 1..Len(constraints) :
              constraints[j].kind = "SOC"
                  => constraints[j].d = d[constraints[j].i] /\ constraints[j].d >= 0

C8_Witness ==
    /\ pc = "done"
    /\ \E i \in 1..N : TrueDistance(x[i], y[i]) + noise[i] < 0 /\ d[i] = 0
    /\ \E i \in 1..N : TrueDistance(x[i], y[i]) + noise[i] > 0 /\ d[i] > 0
    /\ \E j \in 1..N_test : TrueDistance(X_test[j], Y_test[j]) + noise_test[j] < 0

Lifecycle == <<"generate", "formulate", "solve", "evaluate">>

IsLifecycleStep(s) == s \in Range(Lifecycle)

\* C9: the steps generate, formulate, solve, evaluate run in that order, each
\* at most once and each exactly once in a run that completes; the training
\* samples are consumed by the formulate/solve step only, the held-out samples
\* by the evaluate step only, and the fitted matrix is read once, after the
\* solve step, by a statement outside it.
C9_SingleAcyclicPass ==
    LET ran == SelectSeq(steps, IsLifecycleStep)
    IN  /\ Len(ran) <= Len(Lifecycle)
        /\ \A k \in 1..Len(ran) : ran[k] = Lifecycle[k]
        /\ pc = "done" => ran = Lifecycle
        /\ \A v \in {"x", "y", "d"} :
              /\ Range(reads[v]) \subseteq {"formulate", "solve"}
              /\ Len(reads[v]) <= 1
              /\ pc = "done" => Len(reads[v]) = 1
        /\ \A v \in {"X_test", "Y_test", "d_test"} :
              /\ Range(reads[v]) \subseteq {"evaluate"}
              /\ Len(reads[v]) <= 1
              /\ pc = "done" => Len(reads[v]) = 1
        /\ Len(reads["S_opt"]) <= 1
        /\ reads["S_opt"] # <<>> =>
              /\ "solve" \in Range(steps)
              /\ Range(reads["S_opt"]) \cap {"generate", "formulate", "solve"} = {}
        /\ pc = "done" => Len(reads["S_opt"]) = 1

C9_Witness ==
    /\ pc = "done"
    /\ SelectSeq(steps, IsLifecycleStep) = Lifecycle
    /\ reads["S_opt"] = <<"print">>
    /\ reads["x"] = <<"formulate">>
    /\ reads["d_test"] = <<"evaluate">>

ZeroAssignment == [S |-> Zero(n), t |-> [i \in 1..N |-> 0]]

\* C10: S = 0, t = 0 satisfies every constraint of the program handed to the
\* solver with objective 0 and no feasible assignment has a smaller objective, so the
\* program is never infeasible and its optimal value is 0.
C10_ZeroIsOptimal ==
    /\ pc = "solve" =>
          /\ ZeroAssignment \in Feasible(constraints, n, N)
          /\ objective(ZeroAssignment) = 0
          /\ \A a \in Feasible(constraints, n, N) : objective(a) >= 0
          /\ ZeroAssignment \in Optimal(constraints, n, N)
    /\ status # "infeasible"
    /\ Solved => value = 0

C10_Witness ==
    /\ Built /\ Solved /\ value = 0 /\ N >= 1
    /\ \E i \in 1..N : d[i] > 0
    /\ \E a \in Feasible(constraints, n, N) : objective(a) > 0

====
